---- MODULE Spec2Model ----
(***************************************************************************)
(* Model of the cloudpebble QEMU controller: the Emulator session          *)
(* (emulator.py) and the Monkey test run (monkey.py).                      *)
(*                                                                         *)
(* The controller is a gevent program: one greenlet runs at a time and     *)
(* control changes hands only at blocking calls (gevent.sleep, join,       *)
(* communicate, wait, the HTTP POST).  Operating-system processes run      *)
(* truly concurrently and may exit between any two steps.                  *)
(***************************************************************************)
EXTENDS Integers, Sequences, FiniteSets, TLC

\* ---- bounds of the model ------------------------------------------------
MaxKills == 2          \* Emulator.kill() calls explored per session
MaxRuns == 2           \* Monkey.run() calls explored per Monkey
MaxMonkeyKills == 2    \* Monkey.kill() calls explored per Monkey
TzWest == 720          \* SpecTZ explores tz_offset from -TzWest ...
TzEast == 840          \* ... up to TzEast
MaxFinds == 4          \* _find_display() calls explored by SpecDisplay
NumSessions == 2       \* sessions calling the display allocator

\* ---- program constants --------------------------------------------------
KillPolls == 10        \* for i in xrange(10)

\* kill() with the device runtime left out.
KillOrder_NoPkjs == <<"qemu", "gdbserver", "gdb">>

\* The four process fields of an Emulator, in the order kill() visits them.
KillOrder == <<"qemu", "pkjs", "gdbserver", "gdb">>
Procs == {"qemu", "pkjs", "gdbserver", "gdb"}

\* tz_offset values of the sessions explored by Spec: <<>> is None (the
\* constructor's default), <<m>> is the integer m.
TzInputs == {<<>>, <<0>>, <<120>>, <<-90>>}

VARIABLES
    \* ---- Emulator (emulator.py) ----
    debug,          \* self.debug
    tz_offset,      \* self.tz_offset: <<>> for None, <<m>> for an integer
    handle,         \* handle[p]: the field self.<p> is not None
    os,             \* os[p]: OS state of the process behind self.<p>
    reaper,         \* processes whose communicate greenlet is in self.group
    spi_image,      \* self.spi_image is not None
    spi_file,       \* the flash-image copy exists on disk
    persist_dir,    \* self.persist_dir is not None
    persist_file,   \* the persistence directory exists on disk
    group,          \* self.group is not None
    cwd,            \* current working directory of the controller process
    tz,             \* env['TZ'] handed to the device runtime ("" = not set)
    spawned,        \* processes spawned by run(), in spawn order
    epc,            \* position of the controller inside run()/kill()
    eop,            \* the Emulator call in progress or last finished
    eres,           \* outcome of the last finished Emulator call
    started,        \* "no": run() not called; "ok"/"failed": how it ended
    kills,          \* number of kill() calls made
    kidx,           \* index in KillOrder of the process kill() is handling
    polls,          \* value of the poll loop counter in _kill_process
    klog,           \* what the kill() call in progress has done so far
    after_ok_kill,  \* that call was made right after a kill() that returned
    \* ---- Monkey (monkey.py) ----
    tempdir,        \* self.tempdir is not None
    tempdir_file,   \* the extraction directory exists on disk
    runner,         \* self.runner: 0 for None, else the process it refers to
    thread,         \* self.thread: 0 for None, else the greenlet
    rproc,          \* rproc[n]: OS state of the n-th test-runner process
    rcode,          \* rcode[n]: its exit code (-1 while it has none)
    gpc,            \* gpc[n]: position of the n-th wait() greenlet
    gcomm,          \* gcomm[n]: the process whose communicate() it called
    gwait,          \* gwait[n]: the process whose wait() it is blocked in
    gstdout,        \* gstdout[n]: its local stdout
    gcode,          \* gcode[n]: its local code
    consumed,       \* processes whose output a communicate() has returned
    posts,          \* the POSTs sent to callback_url, in order
    mpc,            \* position of the controller inside Monkey.kill()
    mop,            \* the Monkey call in progress or last finished
    mres,           \* outcome of the last finished Monkey call
    runs,           \* number of run() calls made
    mkills,         \* number of kill() calls made
    joinee,         \* the greenlet kill() is blocked on in thread.join()
    kill_target,    \* the runner that was running when kill() was entered
    back_to_back,   \* run() returned and nothing else has run since
    \* ---- display allocator (emulator.py, module level) ----
    _used_displays, \* the module-level set _used_displays
    grants,         \* every index handed out: to whom, and whether still held
    dop,            \* the allocator call last made
    dres,           \* its outcome
    dret            \* the index the last _find_display() returned (-1: none)

evars == <<debug, tz_offset, handle, os, reaper, spi_image, spi_file,
           persist_dir, persist_file, group, cwd, tz, spawned, epc, eop,
           eres, started, kills, kidx, polls, klog, after_ok_kill>>

mvars == <<tempdir, tempdir_file, runner, thread, rproc, rcode, gpc, gcomm,
           gwait, gstdout, gcode, consumed, posts, mpc, mop, mres, runs,
           mkills, joinee, kill_target, back_to_back>>

dvars == <<_used_displays, grants, dop, dres, dret>>

vars == <<evars, mvars, dvars>>

\* ---------------------------------------------------------------------------
\* Pure helpers
\* ---------------------------------------------------------------------------

\* Python's "%02d" % n for 0 <= n.
Fmt02(n) ==
    IF n < 10 THEN "0" \o ToString(n) ELSE ToString(n)

\* Python's "%+03d" % n: a sign, then the magnitude zero-padded to a total
\* width of three characters.
FmtSigned03(n) ==
    IF n < 0 THEN "-" \o Fmt02(-n) ELSE "+" \o Fmt02(n)

\* Python's floor division and modulo by 60 (TLA+'s \div and % on a positive
\* divisor floor as Python's // and % do).
TZFormat(m) ==
    LET hours == m \div 60
        minutes == IF (m % 60) < 0 THEN -(m % 60) ELSE (m % 60)
    IN "PBL" \o FmtSigned03(-hours) \o ":" \o Fmt02(minutes)

\* is_alive() with the two poll() calls forgotten.
is_alive_NoPoll ==
    IF ~handle["qemu"] \/ ~handle["pkjs"]
    THEN FALSE
    ELSE TRUE

\* Emulator.is_alive()
is_alive ==
    IF ~handle["qemu"] \/ ~handle["pkjs"]
    THEN FALSE
    ELSE os["qemu"] = "running" /\ os["pkjs"] = "running"

\* ---------------------------------------------------------------------------
\* Emulator: initial state (after __init__)
\* ---------------------------------------------------------------------------
EInit(debugs, offsets) ==
    /\ debug \in debugs
    /\ tz_offset \in offsets
    /\ handle = [p \in Procs |-> FALSE]
    /\ os = [p \in Procs |-> "none"]
    /\ reaper = {}
    /\ spi_image = FALSE
    /\ spi_file = FALSE
    /\ persist_dir = FALSE
    /\ persist_file = FALSE
    /\ group = FALSE
    /\ cwd = "controller"
    /\ tz = ""
    /\ spawned = <<>>
    /\ epc = "idle"
    /\ eop = "none"
    /\ eres = "none"
    /\ started = "no"
    /\ kills = 0
    /\ kidx = 0
    /\ polls = 0
    /\ klog = <<>>
    /\ after_ok_kill = FALSE

\* A call of the controller ends by raising exc.
ERaise(exc) ==
    /\ epc' = "idle"
    /\ eres' = exc
    /\ started' = IF eop = "run" THEN "failed" ELSE started

\* ---------------------------------------------------------------------------
\* Emulator.run()
\* ---------------------------------------------------------------------------

\* run(): self.group = Group(); self._choose_ports()
RunBegin ==
    /\ epc = "idle"
    /\ started = "no"
    /\ eop' = "run"
    /\ group' = TRUE
    /\ \/ /\ epc' = "make_spi"
          /\ UNCHANGED <<eres, started>>
       \/ /\ epc' = "idle"              \* socket.error while binding a port
          /\ eres' = "socket.error"
          /\ started' = "failed"
    /\ UNCHANGED <<debug, tz_offset, handle, os, reaper, spi_image, spi_file,
                   persist_dir, persist_file, cwd, tz, spawned, kills, kidx,
                   polls, klog>>
    /\ UNCHANGED <<mvars, dvars, after_ok_kill>>

\* _make_spi_image()
MakeSpiImage ==
    /\ epc = "make_spi"
    /\ \/ /\ spi_image' = TRUE          \* template copied into the temp file
          /\ spi_file' = TRUE
          /\ epc' = "spawn_qemu"
          /\ UNCHANGED <<eres, started>>
       \/ /\ spi_image' = TRUE          \* temp file made, template unreadable
          /\ spi_file' = TRUE
          /\ ERaise("IOError")
       \/ /\ UNCHANGED <<spi_image, spi_file>>   \* no temp file could be made
          /\ ERaise("OSError")
    /\ UNCHANGED <<debug, tz_offset, handle, os, reaper, persist_dir,
                   persist_file, group, cwd, tz, spawned, eop, kills, kidx,
                   polls, klog>>
    /\ UNCHANGED <<mvars, dvars, after_ok_kill>>

\* _spawn_qemu()
SpawnQemu ==
    /\ epc = "spawn_qemu"
    /\ IF debug
       THEN \* qemu_params is not defined anywhere: NameError
            /\ ERaise("NameError")
            /\ UNCHANGED <<handle, os, reaper, spawned>>
       ELSE \/ /\ handle' = [handle EXCEPT !["qemu"] = TRUE]
               /\ os' = [os EXCEPT !["qemu"] = "running"]
               /\ spawned' = Append(spawned, "qemu")
               /\ reaper' = reaper \cup {"qemu"}
               /\ epc' = "sleep"
               /\ UNCHANGED <<eres, started>>
            \/ /\ handle' = [handle EXCEPT !["qemu"] = TRUE]
               /\ os' = [os EXCEPT !["qemu"] = "exited"]
               /\ spawned' = Append(spawned, "qemu")
               /\ UNCHANGED reaper     \* stdin.write fails: qemu is gone
               /\ ERaise("IOError")
            \/ /\ ERaise("OSError")     \* Popen fails
               /\ UNCHANGED <<handle, os, reaper, spawned>>
    /\ UNCHANGED <<debug, tz_offset, spi_image, spi_file, persist_dir,
                   persist_file, group, cwd, tz, eop, kills, kidx, polls,
                   klog>>
    /\ UNCHANGED <<mvars, dvars, after_ok_kill>>

\* _spawn_gdb(): the new values of <<handle, os, reaper, spawned>> and the
\* exception raised ("" when none), for the outcomes of the two Popen calls.
_spawn_gdb(server_ok, gdb_ok) ==
    IF ~server_ok
    THEN [handle |-> handle, os |-> os, reaper |-> reaper,
          spawned |-> spawned, exc |-> "OSError"]
    ELSE IF ~gdb_ok
    THEN [handle |-> [handle EXCEPT !["gdbserver"] = TRUE],
          os |-> [os EXCEPT !["gdbserver"] = "running"],
          reaper |-> reaper \cup {"gdbserver"},
          spawned |-> Append(spawned, "gdbserver"), exc |-> "OSError"]
    ELSE [handle |-> [handle EXCEPT !["gdbserver"] = TRUE, !["gdb"] = TRUE],
          os |-> [os EXCEPT !["gdbserver"] = "running", !["gdb"] = "running"],
          reaper |-> reaper \cup {"gdbserver", "gdb"},
          spawned |-> spawned \o <<"gdbserver", "gdb">>, exc |-> ""]

\* run(): gevent.sleep(4); if self.debug: self._spawn_gdb()
SleepThenGdb ==
    /\ epc = "sleep"
    /\ IF debug
       THEN \E server_ok \in BOOLEAN, gdb_ok \in BOOLEAN :
               LET r == _spawn_gdb(server_ok, gdb_ok) IN
               /\ handle' = r.handle
               /\ os' = r.os
               /\ reaper' = r.reaper
               /\ spawned' = r.spawned
               /\ IF r.exc = ""
                  THEN epc' = "spawn_pkjs" /\ UNCHANGED <<eres, started>>
                  ELSE ERaise(r.exc)
       ELSE /\ epc' = "spawn_pkjs"
            /\ UNCHANGED <<handle, os, reaper, spawned, eres, started>>
    /\ UNCHANGED <<debug, tz_offset, spi_image, spi_file, persist_dir,
                   persist_file, group, cwd, tz, eop, kills, kidx, polls,
                   klog>>
    /\ UNCHANGED <<mvars, dvars, after_ok_kill>>

\* _spawn_pkjs()
SpawnPkjs ==
    /\ epc = "spawn_pkjs"
    /\ \/ /\ ERaise("OSError")          \* os.chdir fails
          /\ UNCHANGED <<cwd, tz, persist_dir, persist_file, handle, os,
                         reaper, spawned>>
       \/ /\ cwd' = "pkjs_dir"
          /\ IF tz_offset = <<>>
             THEN \* None // 60: TypeError
                  /\ ERaise("TypeError")
                  /\ UNCHANGED <<tz, persist_dir, persist_file, handle, os,
                                 reaper, spawned>>
             ELSE /\ tz' = TZFormat(tz_offset[1])
                  /\ persist_dir' = TRUE
                  /\ persist_file' = TRUE
                  /\ \/ /\ handle' = [handle EXCEPT !["pkjs"] = TRUE]
                        /\ os' = [os EXCEPT !["pkjs"] = "running"]
                        /\ spawned' = Append(spawned, "pkjs")
                        /\ reaper' = reaper \cup {"pkjs"}
                        /\ epc' = "idle"
                        /\ eres' = "ok"
                        /\ started' = "ok"
                     \/ /\ ERaise("OSError")     \* Popen fails
                        /\ UNCHANGED <<handle, os, reaper, spawned>>
    /\ UNCHANGED <<debug, tz_offset, spi_image, spi_file, group, eop, kills,
                   kidx, polls, klog>>
    /\ UNCHANGED <<mvars, dvars, after_ok_kill>>

\* ---------------------------------------------------------------------------
\* Emulator.kill()
\* ---------------------------------------------------------------------------

\* proc.kill() in _kill_process: os.kill on a child that was already reaped
\* raises OSError with errno 3 (No such process); otherwise the signal is
\* delivered and no exception is raised.
SignalErrno(state) ==
    IF state = "reaped" THEN 3 ELSE 0

\* The except clause of _kill_process: errno 3 is passed over.
Absorbed(errno) ==
    errno = 3

\* The poll loop with its test dropped: it leaves after the first sleep.
PollOutcome_BreakEarly(state, i) ==
    "break"

\* The poll loop without its else clause: running out of polls is a return.
PollOutcome_NoRaise(state, i) ==
    IF state # "running" THEN "break"
    ELSE IF i = KillPolls THEN "break"
    ELSE "continue"

\* One round of the poll loop of _kill_process, after i sleeps: break when
\* poll() reports an exit, raise when the loop runs out, else go on.
PollOutcome(state, i) ==
    IF state # "running" THEN "break"
    ELSE IF i = KillPolls THEN "raise"
    ELSE "continue"

\* kill() moves on past the process at index kidx.
KillAdvance ==
    IF kidx < Len(KillOrder)
    THEN kidx' = kidx + 1 /\ epc' = "kill"
    ELSE kidx' = kidx /\ epc' = "rmtree"

\* _kill_process(proc) has returned for the process at index kidx: for
\* qemu the unlink of the flash image comes next.
KillProcessReturned ==
    IF KillOrder[kidx] = "qemu"
    THEN epc' = "unlink" /\ kidx' = kidx
    ELSE KillAdvance

\* kill() is called.
KillBegin ==
    /\ epc = "idle"
    /\ kills < MaxKills
    /\ epc' = "kill"
    /\ eop' = "kill"
    /\ kills' = kills + 1
    /\ kidx' = 1
    /\ polls' = 0
    /\ klog' = <<>>
    /\ after_ok_kill' = (eop = "kill" /\ eres = "ok")
    /\ UNCHANGED <<debug, tz_offset, handle, os, reaper, spi_image, spi_file,
                   persist_dir, persist_file, group, cwd, tz, spawned, eres,
                   started>>
    /\ UNCHANGED <<mvars, dvars>>

\* kill(): "if self.<p> is not None: self._kill_process(self.<p>)" up to and
\* including proc.kill().
KillSignal ==
    /\ epc = "kill"
    /\ LET p == KillOrder[kidx] IN
       IF handle[p]
       THEN /\ klog' = IF SignalErrno(os[p]) = 0
                        THEN klog \o <<<<"kill", p>>, <<"delivered", p>>>>
                        ELSE Append(klog, <<"kill", p>>)
            /\ polls' = 0
            /\ IF SignalErrno(os[p]) = 0
               THEN epc' = "poll" /\ kidx' = kidx /\ UNCHANGED <<eres, started>>
               ELSE IF Absorbed(SignalErrno(os[p]))
               THEN KillProcessReturned /\ UNCHANGED <<eres, started>>
               ELSE ERaise("OSError") /\ kidx' = kidx
       ELSE /\ KillAdvance
            /\ UNCHANGED <<klog, polls, eres, started>>
    /\ UNCHANGED <<debug, tz_offset, handle, os, reaper, spi_image, spi_file,
                   persist_dir, persist_file, group, cwd, tz, spawned, eop,
                   kills>>
    /\ UNCHANGED <<mvars, dvars, after_ok_kill>>

\* _kill_process: gevent.sleep(0.1); if proc.poll() is not None: break;
\* else (loop exhausted) raise.
KillPoll ==
    /\ epc = "poll"
    /\ LET p == KillOrder[kidx]
           out == PollOutcome(os[p], polls + 1) IN
       /\ polls' = polls + 1
       /\ os' = IF os[p] = "exited" THEN [os EXCEPT ![p] = "reaped"] ELSE os
       /\ CASE out = "break" -> KillProcessReturned /\ UNCHANGED <<eres, started>>
            [] out = "raise" -> ERaise("KillTimeout") /\ kidx' = kidx
            [] OTHER -> UNCHANGED <<epc, kidx, eres, started>>
    /\ UNCHANGED <<debug, tz_offset, handle, reaper, spi_image, spi_file,
                   persist_dir, persist_file, group, cwd, tz, spawned, eop,
                   kills, klog>>
    /\ UNCHANGED <<mvars, dvars, after_ok_kill>>

\* kill(): os.unlink(self.spi_image.name), OSError passed over.
KillUnlink ==
    /\ epc = "unlink"
    /\ spi_file' = FALSE
    /\ klog' = Append(klog, <<"unlink", "spi_image">>)
    /\ KillAdvance
    /\ UNCHANGED <<debug, tz_offset, handle, os, reaper, spi_image,
                   persist_dir, persist_file, group, cwd, tz, spawned, eop,
                   eres, started, kills, polls>>
    /\ UNCHANGED <<mvars, dvars, after_ok_kill>>

\* kill(): shutil.rmtree(self.persist_dir), OSError passed over;
\* rmtree(None) raises TypeError.
KillRmtree ==
    /\ epc = "rmtree"
    /\ IF persist_dir
       THEN /\ persist_file' = FALSE
            /\ klog' = Append(klog, <<"rmtree", "persist_dir">>)
            /\ epc' = "group_kill"
            /\ UNCHANGED <<eres, started>>
       ELSE /\ ERaise("TypeError")
            /\ UNCHANGED <<persist_file, klog>>
    /\ UNCHANGED <<debug, tz_offset, handle, os, reaper, spi_image, spi_file,
                   persist_dir, group, cwd, tz, spawned, eop, kills, kidx,
                   polls>>
    /\ UNCHANGED <<mvars, dvars, after_ok_kill>>

\* kill(): self.group.kill(block=True); None.kill raises AttributeError.
KillGroup ==
    /\ epc = "group_kill"
    /\ IF group
       THEN /\ reaper' = {}
            /\ klog' = Append(klog, <<"group_kill", "group">>)
            /\ epc' = "idle"
            /\ eres' = "ok"
            /\ UNCHANGED started
       ELSE /\ ERaise("AttributeError")
            /\ UNCHANGED <<reaper, klog>>
    /\ UNCHANGED <<debug, tz_offset, handle, os, spi_image, spi_file,
                   persist_dir, persist_file, group, cwd, tz, spawned, eop,
                   kills, kidx, polls>>
    /\ UNCHANGED <<mvars, dvars, after_ok_kill>>

\* ---------------------------------------------------------------------------
\* Environment of the Emulator
\* ---------------------------------------------------------------------------

\* A spawned process exits (on its own, or from a delivered SIGKILL).
ProcExit(p) ==
    /\ os[p] = "running"
    /\ os' = [os EXCEPT ![p] = "exited"]
    /\ UNCHANGED <<debug, tz_offset, handle, reaper, spi_image, spi_file,
                   persist_dir, persist_file, group, cwd, tz, spawned, epc,
                   eop, eres, started, kills, kidx, polls, klog>>
    /\ UNCHANGED <<mvars, dvars, after_ok_kill>>

\* The communicate greenlet of the group collects an exited process; it can
\* run only where the controller yields.
Reap(p) ==
    /\ epc \in {"idle", "sleep", "poll"}
    /\ p \in reaper
    /\ os[p] = "exited"
    /\ os' = [os EXCEPT ![p] = "reaped"]
    /\ UNCHANGED <<debug, tz_offset, handle, reaper, spi_image, spi_file,
                   persist_dir, persist_file, group, cwd, tz, spawned, epc,
                   eop, eres, started, kills, kidx, polls, klog>>
    /\ UNCHANGED <<mvars, dvars, after_ok_kill>>


\* ---------------------------------------------------------------------------
\* Monkey: initial state (after a successful __init__)
\* ---------------------------------------------------------------------------
Runners == 1..MaxRuns

\* Exit codes of the test runner explored.
Codes == {0, 1}

\* What the n-th test-runner process writes to its stdout/stderr pipe.
Output(n) == "output of runner " \o ToString(n)

\* wait(): stdout += "\nProcess terminated with code: %s" % code
LogOf(out, code) ==
    out \o "\nProcess terminated with code: " \o ToString(code)

MInit ==
    /\ tempdir = TRUE
    /\ tempdir_file = TRUE
    /\ runner = 0
    /\ thread = 0
    /\ rproc = [n \in Runners |-> "none"]
    /\ rcode = [n \in Runners |-> -1]
    /\ gpc = [n \in Runners |-> "none"]
    /\ gcomm = [n \in Runners |-> 0]
    /\ gwait = [n \in Runners |-> 0]
    /\ gstdout = [n \in Runners |-> ""]
    /\ gcode = [n \in Runners |-> -1]
    /\ consumed = {}
    /\ posts = <<>>
    /\ mpc = "idle"
    /\ mop = "none"
    /\ mres = "none"
    /\ runs = 0
    /\ mkills = 0
    /\ joinee = 0
    /\ kill_target = 0
    /\ back_to_back = FALSE

\* The state before Monkey.__init__ is called.
MNew ==
    /\ tempdir = FALSE
    /\ tempdir_file = FALSE
    /\ runner = 0
    /\ thread = 0
    /\ rproc = [n \in Runners |-> "none"]
    /\ rcode = [n \in Runners |-> -1]
    /\ gpc = [n \in Runners |-> "none"]
    /\ gcomm = [n \in Runners |-> 0]
    /\ gwait = [n \in Runners |-> 0]
    /\ gstdout = [n \in Runners |-> ""]
    /\ gcode = [n \in Runners |-> -1]
    /\ consumed = {}
    /\ posts = <<>>
    /\ mpc = "new"
    /\ mop = "none"
    /\ mres = "none"
    /\ runs = 0
    /\ mkills = 0
    /\ joinee = 0
    /\ kill_target = 0
    /\ back_to_back = FALSE

\* Monkey.__init__: the two settings are checked, the directory is made,
\* the fields are set, the archive is extracted.
MonkeyConstruct ==
    /\ mpc = "new"
    /\ \E loghash_set \in BOOLEAN, runner_set \in BOOLEAN, archive_ok \in BOOLEAN :
          IF ~loghash_set \/ ~runner_set
          THEN /\ mres' = "Exception"
               /\ mpc' = "no_object"
               /\ UNCHANGED <<tempdir, tempdir_file>>
          ELSE IF ~archive_ok
          THEN \* ZipFile(archive) or extractall raises after mkdtemp
               /\ tempdir' = TRUE
               /\ tempdir_file' = TRUE
               /\ mres' = "BadZipfile"
               /\ mpc' = "no_object"
          ELSE /\ tempdir' = TRUE
               /\ tempdir_file' = TRUE
               /\ mpc' = "idle"
               /\ UNCHANGED mres
    /\ UNCHANGED <<runner, thread, rproc, rcode, gpc, gcomm, gwait, gstdout,
                   gcode, consumed, posts, mop, runs, mkills, joinee,
                   kill_target, back_to_back>>
    /\ UNCHANGED <<evars, dvars>>

\* Popen.poll() / Popen.wait() on process r collect it once it has exited.
Polled(rp, r) ==
    IF rp[r] = "exited" THEN [rp EXCEPT ![r] = "reaped"] ELSE rp

\* bool(greenlet): true from spawn until the greenlet has finished.
GreenletActive(n) ==
    gpc[n] \in {"ready", "communicate", "wait", "notify"}

\* Monkey.is_alive()
Monkey_is_alive ==
    runner # 0 /\ thread # 0 /\ rproc[runner] = "running"

\* ---------------------------------------------------------------------------
\* Monkey.run()
\* ---------------------------------------------------------------------------
MonkeyRun ==
    /\ mpc = "idle"
    /\ runs < MaxRuns
    /\ runs' = runs + 1
    /\ mop' = "run"
    /\ IF Monkey_is_alive
       THEN /\ mres' = "ok"
            /\ back_to_back' = TRUE
            /\ UNCHANGED <<runner, thread, rproc, gpc>>
       ELSE LET n == runs + 1
                rp == IF runner # 0 /\ thread # 0
                      THEN Polled(rproc, runner) ELSE rproc
            IN \/ /\ runner' = n
                  /\ rproc' = [rp EXCEPT ![n] = "running"]
                  /\ thread' = n
                  /\ gpc' = [gpc EXCEPT ![n] = "ready"]
                  /\ mres' = "ok"
                  /\ back_to_back' = TRUE
               \/ /\ rproc' = rp            \* Popen fails
                  /\ mres' = "OSError"
                  /\ back_to_back' = FALSE
                  /\ UNCHANGED <<runner, thread, gpc>>
    /\ UNCHANGED <<tempdir, tempdir_file, rcode, gcomm, gwait, gstdout, gcode,
                   consumed, posts, mpc, mkills, joinee, kill_target>>
    /\ UNCHANGED <<evars, dvars>>

\* ---------------------------------------------------------------------------
\* Monkey.kill()
\* ---------------------------------------------------------------------------

\* kill(): "if self.runner.poll() is not None: self.runner.kill()"
ShouldSignal(state) ==
    state # "running"

\* kill() without the "if self.thread:" guard: None.join raises.
KillClearAndJoin_NoGuard ==
    /\ runner' = 0
    /\ IF thread # 0 /\ GreenletActive(thread)
       THEN /\ mpc' = "join"
            /\ joinee' = thread
            /\ UNCHANGED mres
       ELSE /\ mpc' = "idle"
            /\ mres' = IF thread = 0 THEN "AttributeError" ELSE "ok"
            /\ UNCHANGED joinee
    /\ UNCHANGED thread

\* kill() from "self.runner = None" on.
KillClearAndJoin ==
    /\ runner' = 0
    /\ IF thread # 0 /\ GreenletActive(thread)
       THEN /\ mpc' = "join"
            /\ joinee' = thread
            /\ UNCHANGED mres
       ELSE /\ mpc' = "idle"
            /\ mres' = "ok"
            /\ UNCHANGED joinee
    /\ UNCHANGED thread

MonkeyKill ==
    /\ mpc = "idle"
    /\ mkills < MaxMonkeyKills
    /\ mkills' = mkills + 1
    /\ mop' = "kill"
    /\ back_to_back' = FALSE
    /\ kill_target' = IF runner # 0 /\ rproc[runner] = "running"
                      THEN runner ELSE 0
    /\ IF runner # 0
       THEN /\ rproc' = Polled(rproc, runner)
            /\ IF ShouldSignal(rproc[runner])
               THEN \* os.kill on a child that poll() has collected
                    \/ /\ mres' = "OSError"     \* No such process
                       /\ UNCHANGED <<runner, thread, mpc, joinee>>
                    \/ KillClearAndJoin         \* send_signal skips a collected child
               ELSE KillClearAndJoin
       ELSE /\ KillClearAndJoin
            /\ UNCHANGED rproc
    /\ UNCHANGED <<tempdir, tempdir_file, rcode, gpc, gcomm, gwait, gstdout,
                   gcode, consumed, posts, runs>>
    /\ UNCHANGED <<evars, dvars>>

\* kill(): self.thread.join() returns; self.thread = None
MonkeyKillJoined ==
    /\ mpc = "join"
    /\ ~GreenletActive(joinee)
    /\ thread' = 0
    /\ mpc' = "idle"
    /\ mres' = "ok"
    /\ UNCHANGED <<tempdir, tempdir_file, runner, rproc, rcode, gpc, gcomm,
                   gwait, gstdout, gcode, consumed, posts, mop, runs, mkills,
                   joinee, kill_target, back_to_back>>
    /\ UNCHANGED <<evars, dvars>>

\* ---------------------------------------------------------------------------
\* Monkey.wait(), the completion greenlet
\* ---------------------------------------------------------------------------

\* The finally clause of wait() without its clean() call.
WaitFinally_NoClean ==
    /\ UNCHANGED <<tempdir, tempdir_file>>
    /\ thread' = 0

\* clean(), then self.thread = None: the finally clause of wait().
WaitFinally ==
    /\ tempdir' = FALSE
    /\ tempdir_file' = IF tempdir THEN FALSE ELSE tempdir_file
    /\ thread' = 0

\* wait() up to the point where communicate() blocks.
GreenletStart(n) ==
    /\ gpc[n] = "ready"
    /\ back_to_back' = FALSE
    /\ IF runner = 0
       THEN \* None.communicate: AttributeError
            /\ WaitFinally
            /\ gpc' = [gpc EXCEPT ![n] = "failed"]
            /\ UNCHANGED gcomm
       ELSE /\ gpc' = [gpc EXCEPT ![n] = "communicate"]
            /\ gcomm' = [gcomm EXCEPT ![n] = runner]
            /\ UNCHANGED <<tempdir, tempdir_file, thread>>
    /\ UNCHANGED <<runner, rproc, rcode, gwait, gstdout, gcode, consumed,
                   posts, mpc, mop, mres, runs, mkills, joinee, kill_target>>
    /\ UNCHANGED <<evars, dvars>>

\* wait() from "code = self.runner.wait()" returning code to the end of the
\* finally clause.
WaitGotCode(n, out, code) ==
    /\ gstdout' = [gstdout EXCEPT ![n] = LogOf(out, code)]
    /\ gcode' = [gcode EXCEPT ![n] = code]
    /\ runner' = 0
    /\ WaitFinally
    /\ gpc' = [gpc EXCEPT ![n] = "notify"]

\* communicate() returns out; wait() goes on with self.runner.wait().
AfterCommunicate(n, out) ==
    LET rp == Polled(rproc, gcomm[n]) IN
    IF runner = 0
    THEN \* None.wait: AttributeError
         /\ WaitFinally
         /\ gpc' = [gpc EXCEPT ![n] = "failed"]
         /\ gstdout' = [gstdout EXCEPT ![n] = out]
         /\ rproc' = rp
         /\ UNCHANGED <<runner, gcode, gwait>>
    ELSE IF rp[runner] # "running"
    THEN /\ WaitGotCode(n, out, rcode[runner])
         /\ rproc' = Polled(rp, runner)
         /\ UNCHANGED gwait
    ELSE /\ gpc' = [gpc EXCEPT ![n] = "wait"]
         /\ gwait' = [gwait EXCEPT ![n] = runner]
         /\ gstdout' = [gstdout EXCEPT ![n] = out]
         /\ rproc' = rp
         /\ UNCHANGED <<runner, gcode, tempdir, tempdir_file, thread>>

\* The process whose communicate() the greenlet called has exited.
GreenletCommunicated(n) ==
    /\ gpc[n] = "communicate"
    /\ rproc[gcomm[n]] \in {"exited", "reaped"}
    /\ back_to_back' = FALSE
    /\ consumed' = consumed \cup {gcomm[n]}
    /\ IF gcomm[n] \in consumed
       THEN \* another greenlet has drained and closed the pipe
            \/ AfterCommunicate(n, "")
            \/ /\ WaitFinally               \* ValueError on the closed file
               /\ gpc' = [gpc EXCEPT ![n] = "failed"]
               /\ UNCHANGED <<runner, rproc, gstdout, gcode, gwait>>
       ELSE AfterCommunicate(n, Output(gcomm[n]))
    /\ UNCHANGED <<rcode, gcomm, posts, mpc, mop, mres, runs, mkills, joinee,
                   kill_target>>
    /\ UNCHANGED <<evars, dvars>>

\* The process whose wait() the greenlet is blocked in has exited.
GreenletWaited(n) ==
    /\ gpc[n] = "wait"
    /\ rproc[gwait[n]] \in {"exited", "reaped"}
    /\ back_to_back' = FALSE
    /\ WaitGotCode(n, gstdout[n], rcode[gwait[n]])
    /\ rproc' = Polled(rproc, gwait[n])
    /\ UNCHANGED <<rcode, gcomm, gwait, consumed, posts, mpc, mop, mres, runs,
                   mkills, joinee, kill_target>>
    /\ UNCHANGED <<evars, dvars>>

\* wait(): self.notify_cloudpebble(code, stdout); requests.post may raise.
GreenletNotify(n) ==
    /\ gpc[n] = "notify"
    /\ back_to_back' = FALSE
    /\ posts' = Append(posts, [log |-> gstdout[n], code |-> gcode[n],
                               dir_exists |-> tempdir_file])
    /\ \E end \in {"done", "failed"} : gpc' = [gpc EXCEPT ![n] = end]
    /\ UNCHANGED <<tempdir, tempdir_file, runner, thread, rproc, rcode, gcomm,
                   gwait, gstdout, gcode, consumed, mpc, mop, mres, runs,
                   mkills, joinee, kill_target>>
    /\ UNCHANGED <<evars, dvars>>

\* A test-runner process exits on its own.
RunnerExit(n) ==
    /\ rproc[n] = "running"
    /\ rproc' = [rproc EXCEPT ![n] = "exited"]
    /\ \E c \in Codes : rcode' = [rcode EXCEPT ![n] = c]
    /\ UNCHANGED <<tempdir, tempdir_file, runner, thread, gpc, gcomm, gwait,
                   gstdout, gcode, consumed, posts, mpc, mop, mres, runs,
                   mkills, joinee, kill_target, back_to_back>>
    /\ UNCHANGED <<evars, dvars>>


\* ---------------------------------------------------------------------------
\* The display allocator: _used_displays, _find_display, _free_display
\* ---------------------------------------------------------------------------
Sessions == 1..NumSessions

\* The indices _free_display is called with: every index that can have been
\* handed out, and one that never is.
DisplayArgs == 0..MaxFinds

DInit ==
    /\ _used_displays = {}
    /\ grants = <<>>
    /\ dop = "none"
    /\ dres = "none"
    /\ dret = -1

\* "for i in itertools.count(): if i not in _used_displays", from i on.
RECURSIVE FirstFreeFrom(_, _)
FirstFreeFrom(i, used) ==
    IF i \notin used THEN i ELSE FirstFreeFrom(i + 1, used)

\* The loop started at 1 instead of 0.
_find_display_FromOne(used) ==
    FirstFreeFrom(1, used)

\* The index _find_display() returns when the set is used.
_find_display(used) ==
    FirstFreeFrom(0, used)

\* Session s calls _find_display().
FindDisplay(s) ==
    /\ Len(grants) < MaxFinds
    /\ LET i == _find_display(_used_displays) IN
       /\ _used_displays' = _used_displays \cup {i}
       /\ grants' = Append(grants, [session |-> s, index |-> i, live |-> TRUE])
       /\ dret' = i
    /\ dop' = "find"
    /\ dres' = "ok"
    /\ UNCHANGED <<evars, mvars>>

\* _free_display(d) is called: set.remove raises KeyError for a missing d.
FreeDisplay(d) ==
    /\ dop' = "free"
    /\ IF d \in _used_displays
       THEN /\ _used_displays' = _used_displays \ {d}
            /\ grants' = [k \in DOMAIN grants |->
                            IF grants[k].index = d
                            THEN [grants[k] EXCEPT !.live = FALSE]
                            ELSE grants[k]]
            /\ dres' = "ok"
       ELSE /\ dres' = "KeyError"
            /\ UNCHANGED <<_used_displays, grants>>
    /\ UNCHANGED dret
    /\ UNCHANGED <<evars, mvars>>

\* ---------------------------------------------------------------------------
\* Specifications
\* ---------------------------------------------------------------------------

\* One Emulator session.
Init ==
    /\ EInit(BOOLEAN, TzInputs)
    /\ MInit
    /\ DInit

Next ==
    \/ RunBegin
    \/ MakeSpiImage
    \/ SpawnQemu
    \/ SleepThenGdb
    \/ SpawnPkjs
    \/ KillBegin
    \/ KillSignal
    \/ KillPoll
    \/ KillUnlink
    \/ KillRmtree
    \/ KillGroup
    \/ \E p \in Procs : ProcExit(p)
    \/ \E p \in Procs : Reap(p)

Spec == Init /\ [][Next]_vars

\* One Monkey test run.
InitMonkey ==
    /\ EInit({FALSE}, {<<>>})
    /\ MNew
    /\ DInit

NextMonkey ==
    \/ MonkeyConstruct
    \/ MonkeyRun
    \/ MonkeyKill
    \/ MonkeyKillJoined
    \/ \E n \in Runners : GreenletStart(n)
    \/ \E n \in Runners : GreenletCommunicated(n)
    \/ \E n \in Runners : GreenletWaited(n)
    \/ \E n \in Runners : GreenletNotify(n)
    \/ \E n \in Runners : RunnerExit(n)

SpecMonkey == InitMonkey /\ [][NextMonkey]_vars

\* Emulator.run() alone, over the whole range of timezone offsets.
InitTZ ==
    /\ EInit({FALSE}, {<<m>> : m \in (-TzWest)..TzEast})
    /\ MInit
    /\ DInit

NextTZ ==
    \/ RunBegin
    \/ MakeSpiImage
    \/ SpawnQemu
    \/ SleepThenGdb
    \/ SpawnPkjs

SpecTZ == InitTZ /\ [][NextTZ]_vars

\* The display allocator called by independent sessions.
InitDisplay ==
    /\ EInit({FALSE}, {<<>>})
    /\ MInit
    /\ DInit

NextDisplay ==
    \/ \E s \in Sessions : FindDisplay(s)
    \/ \E d \in DisplayArgs : FreeDisplay(d)

SpecDisplay == InitDisplay /\ [][NextDisplay]_vars

TypeOK ==
    /\ epc \in {"idle", "make_spi", "spawn_qemu", "sleep", "spawn_pkjs",
                "kill", "poll", "unlink", "rmtree", "group_kill"}
    /\ polls \in 0..KillPolls
    /\ kills \in 0..MaxKills

\* ---------------------------------------------------------------------------
\* Properties of the Emulator
\* ---------------------------------------------------------------------------

Range(s) == {s[i] : i \in 1..Len(s)}

\* A kill() call has finished (returned or raised).
KillFinished == epc = "idle" /\ eop = "kill"

\* Nothing of the session is left: no process runs, no artifact is on disk.
TornDown ==
    /\ \A p \in Procs : os[p] # "running"
    /\ ~spi_file
    /\ ~persist_file

C2_KillSafeWhenPartlyConfigured ==
    (KillFinished /\ started \in {"no", "failed"} /\ eres # "KillTimeout")
        => (eres = "ok" /\ TornDown)

\* C3: when _kill_process times out on one process of a running session, kill() has still
\* attempted to terminate every other non-null process handle and has still
\* run the artifact removals by the time it finishes.
C3_TimeoutDoesNotSkipSiblings ==
    (KillFinished /\ started = "ok" /\ eres = "KillTimeout") =>
        /\ \A p \in Procs : handle[p] => <<"kill", p>> \in Range(klog)
        /\ <<"rmtree", "persist_dir">> \in Range(klog)

C10_BoundedTermination ==
    [][ /\ polls' <= KillPolls
        /\ epc = "poll" =>
              LET p == KillOrder[kidx] IN
              /\ (epc' = "idle") <=> (os[p] = "running" /\ polls' = KillPolls)
              /\ epc' = "idle" => eres' = "KillTimeout"
              /\ epc' \notin {"poll", "idle"} => os'[p] # "running"
        /\ (epc = "kill" /\ handle[KillOrder[kidx]]
              /\ os[KillOrder[kidx]] = "reaped") => epc' \notin {"poll", "idle"}
      ]_vars

\* _kill_process has just raised after its last poll.
C10_Witness ==
    KillFinished /\ eres = "KillTimeout" /\ polls = KillPolls

\* ---------------------------------------------------------------------------
\* Properties of the timezone string
\* ---------------------------------------------------------------------------

\* "PBL", the sign-flipped whole-hour part of m and the absolute minute part
\* of m: 0 gives PBL+00:00, 120 gives PBL-02:00, -90 gives PBL+01:30.
ExpectedTZ(m) ==
    LET a == IF m < 0 THEN -m ELSE m
        whole == IF m < 0 THEN -(a \div 60) ELSE a \div 60
    IN "PBL" \o FmtSigned03(-whole) \o ":" \o Fmt02(a % 60)

\* C8: the TZ value handed to the device runtime for an offset of m minutes
\* is PBL, the sign-flipped whole-hour part of m and the absolute minute
\* part of m, for every m of the range.
C8_TZString ==
    tz # "" => tz = ExpectedTZ(tz_offset[1])

\* ---------------------------------------------------------------------------
\* Properties of the Monkey
\* ---------------------------------------------------------------------------

\* A Monkey.kill() call has returned without raising.
MonkeyKillReturned == mpc = "idle" /\ mop = "kill" /\ mres = "ok"

\* C4: when kill() was called while the test runner was running, that
\* process is no longer running once kill() has returned.
C4_KillTerminatesRunner ==
    (MonkeyKillReturned /\ kill_target # 0) => rproc[kill_target] # "running"

\* C5: a run() call that directly follows a run() call spawns no process and
\* leaves self.runner and self.thread as the first call set them, whenever
\* the runner exits.
C5_SecondRunIsNoOp ==
    [][ (back_to_back /\ runs' = runs + 1) =>
            (rproc' = rproc /\ runner' = runner /\ thread' = thread) ]_vars

\* C6: when kill() has returned after a run(), no completion greenlet is
\* still in progress.
C6_KillJoinsCompletionTask ==
    MonkeyKillReturned => \A n \in Runners : ~GreenletActive(n)

\* The POSTs that report process n: its exit code, and its output followed
\* by the line with that code.
PostsFor(n) ==
    {i \in DOMAIN posts :
        posts[i].code = rcode[n] /\ posts[i].log = LogOf(Output(n), rcode[n])}

\* C7: once a test-runner process has exited and the completion greenlets
\* have finished, exactly one POST reporting that process was sent, and every
\* POST was sent after the extraction directory was removed.
C7_OneNotificationPerRun ==
    /\ \A i \in DOMAIN posts : ~posts[i].dir_exists
    /\ (\A g \in Runners : ~GreenletActive(g)) =>
          \A n \in Runners :
              rproc[n] \in {"exited", "reaped"} => Cardinality(PostsFor(n)) = 1

\* ---------------------------------------------------------------------------
\* Properties of the display allocator
\* ---------------------------------------------------------------------------

\* C11: no index is held by two holders at once, and every _find_display()
\* returns the smallest non-negative integer that was not allocated.
C11_SmallestFreeNoDuplicates ==
    /\ [](\A j, k \in DOMAIN grants :
            (j # k /\ grants[j].live /\ grants[k].live)
                => grants[j].index # grants[k].index)
    /\ [][ Len(grants') > Len(grants) =>
              /\ dret' \notin _used_displays
              /\ \A j \in 0..(dret' - 1) : j \in _used_displays
              /\ grants'[Len(grants')].index = dret' ]_vars

\* An index released by one session has been handed out again to the other
\* while a larger index is still held.
C11_Witness ==
    \E j, k \in DOMAIN grants :
        /\ j < k
        /\ grants[j].index = grants[k].index
        /\ grants[j].session # grants[k].session
        /\ ~grants[j].live
        /\ grants[k].live
        /\ \E l \in DOMAIN grants : grants[l].live /\ grants[l].index > grants[k].index

\* C12: _free_display raises nothing, whatever index it is called with.
C12_FreeIsSilent ==
    dop = "free" => dres = "ok"

\* ---------------------------------------------------------------------------
\* Further properties of the Monkey
\* ---------------------------------------------------------------------------

\* C20: when Monkey.__init__ raises, no extraction directory made by that
\* call is left on disk.
C20_FailedConstructorLeavesNoDirectory ==
    mpc = "no_object" => ~tempdir_file

\* Every run() that was made has completed: no greenlet is in progress.
MonkeyCompleted ==
    /\ runs >= 1
    /\ \E n \in Runners : gpc[n] \in {"done", "failed"}
    /\ \A n \in Runners : ~GreenletActive(n)

\* What a Monkey.kill() call can touch, the call counters aside.
MonkeyState ==
    <<tempdir, tempdir_file, runner, thread, rproc, rcode, gpc, gcomm, gwait,
      gstdout, gcode, consumed, posts, runs>>

\* C13: a kill() called before any run(), directly after a kill() that
\* returned, or after the run has completed returns at once without raising
\* and changes no field, no process and not the extraction directory.
C13_KillIsIdempotent ==
    [][ ( /\ mkills' = mkills + 1
          /\ \/ runs = 0
             \/ mop = "kill" /\ mres = "ok"
             \/ MonkeyCompleted )
        => ( /\ mpc' = "idle"
             /\ mres' = "ok"
             /\ MonkeyState' = MonkeyState ) ]_vars

\* A second kill() has returned on a Monkey whose runner was running when
\* the first kill() cleared the handle.
C13_Witness ==
    /\ mkills = 2 /\ runs = 1
    /\ mpc = "idle" /\ mop = "kill" /\ mres = "ok"
    /\ gpc[1] = "failed" /\ rproc[1] = "running"

\* C17: a completion greenlet that has passed its finally clause (it is
\* sending the notification, or has ended normally or by an exception) has
\* removed the extraction directory, and self.thread does not refer to it.
C17_TaskAlwaysCleans ==
    \A n \in Runners :
        gpc[n] \in {"notify", "done", "failed"} =>
            /\ ~tempdir_file
            /\ ~tempdir
            /\ thread # n

\* A completion greenlet has ended by the exception raised on self.runner
\* after communicate() returned, kill() having cleared the handle; nothing
\* was posted.
C17_Witness ==
    \E n \in Runners :
        /\ gpc[n] = "failed"
        /\ gcomm[n] # 0
        /\ gcomm[n] \in consumed
        /\ posts = <<>>
        /\ mkills >= 1

\* ---------------------------------------------------------------------------
\* Further properties of the Emulator
\* ---------------------------------------------------------------------------

\* C14: within one kill() call every termination attempt comes before every
\* removal of a staged artifact.
C14_TerminationBeforeRemoval ==
    \A i, j \in DOMAIN klog :
        (klog[i][1] \in {"unlink", "rmtree"} /\ klog[j][1] = "kill") => j < i

\* C15: a kill() made right after a kill() that returned attempts no
\* process termination: it calls proc.kill() on no handle.
C15_SecondKillAttemptsNothing ==
    (eop = "kill" /\ after_ok_kill) =>
        \A p \in Procs : <<"kill", p>> \notin Range(klog)

\* Outcomes of run() that come from the environment: a port that cannot be
\* bound, a file that cannot be read or written, a binary that cannot be
\* spawned.
EnvFailures == {"socket.error", "IOError", "OSError"}

\* C16: a run() with an integer tz_offset that meets no failure of the
\* environment ends Running; with debug set the processes spawned are, in
\* order, emulator, gdbserver, debug bridge, device runtime; without debug
\* they are emulator and device runtime, and the gdbserver and debug-bridge
\* handles stay null.
C16_RunSpawnsInOrder ==
    (epc = "idle" /\ eop = "run" /\ tz_offset # <<>> /\ eres \notin EnvFailures)
        => /\ eres = "ok"
           /\ spawned = IF debug
                        THEN <<"qemu", "gdbserver", "gdb", "pkjs">>
                        ELSE <<"qemu", "pkjs">>
           /\ ~debug => (~handle["gdbserver"] /\ ~handle["gdb"])

\* C18: the flash-image copy is removed only when the emulator process is
\* not running, and the persistence directory only when the device-runtime
\* process is not running.
C18_NoRemovalUnderLiveProcess ==
    [][ /\ (spi_file /\ ~spi_file') => os["qemu"] # "running"
        /\ (persist_file /\ ~persist_file') => os["pkjs"] # "running" ]_vars

\* kill() has removed both artifacts of a session whose emulator and device
\* runtime both took the kill signal.
C18_Witness ==
    /\ eop = "kill"
    /\ <<"delivered", "qemu">> \in Range(klog)
    /\ <<"delivered", "pkjs">> \in Range(klog)
    /\ <<"unlink", "spi_image">> \in Range(klog)
    /\ <<"rmtree", "persist_dir">> \in Range(klog)
    /\ ~spi_file /\ ~persist_file

\* C19: run() and kill() leave the state of the controller process that is
\* shared with other sessions as it was: the working directory and the
\* display-index set.
C19_SharedStateUntouched ==
    /\ cwd = "controller"
    /\ _used_displays = {}

====
